---- MODULE Spec2Model ----
(***************************************************************************)
(* PokePipeline (src/pokepipeline.py): fetch Pokemon documents from the    *)
(* upstream API with bounded retries, flatten them into rows and upsert    *)
(* them into an SQLite database, one transaction per Pokemon.              *)
(*                                                                         *)
(* The database is modelled table by table as sets of rows, with the       *)
(* constraints of SCHEMA (primary keys, UNIQUE, FOREIGN KEY ... ON DELETE  *)
(* CASCADE under PRAGMA foreign_keys = ON) enforced by the operators that  *)
(* model the SQL statements.  `db` is what the open connection sees,       *)
(* `committed` what the database file holds.                               *)
(***************************************************************************)
EXTENDS Integers, Sequences, FiniteSets, TLC

\* Python's None and SQL's NULL, where a number is expected (every number of
\* the program is >= 0) and where a URL is expected.
None == -1
NoneUrl == <<"None">>
\* A JSON object is a record whose field `keys` names the keys it carries; a
\* field whose key it does not carry holds a placeholder that is never read.
NoJson == [keys |-> {}]

(***************************************************************************)
(* Bounds of the model.                                                    *)
(***************************************************************************)
\* Pokemon identifiers are 1..MaxPid.
MaxPid == 2
\* The identifier list of one run holds 1..MaxIds identifiers.
MaxIds == 2
\* Reference ids (types, abilities) that occur in URLs are 1..MaxRefId.
MaxRefId == 2
\* A document lists at most MaxEntries types, abilities and stats.
MaxEntries == 2
\* The pipeline is run MaxRuns times on the same list.
MaxRuns == 2

(***************************************************************************)
(* Program constants: fetch_json's defaults.  Time is counted in tenths of *)
(* a second, so backoff = 0.5 is 5.                                        *)
(***************************************************************************)
max_retries == 3
backoff == 5

RECURSIVE SeqSum(_)
SeqSum(s) == IF s = <<>> THEN 0 ELSE Head(s) + SeqSum(Tail(s))

Max(S) == CHOOSE x \in S : \A y \in S : y <= x

(***************************************************************************)
(* URLs are strings, modelled as sequences of one-character strings.  The  *)
(* reference id of a type, an ability or an evolution chain is parsed from *)
(* its URL: int(url.rstrip("/").split("/")[-1]).                           *)
(***************************************************************************)
Digits == <<"0", "1", "2", "3", "4", "5", "6", "7", "8", "9">>

IsDigit(c) == \E i \in 1..10 : Digits[i] = c

DigitValue(c) == (CHOOSE i \in 1..10 : Digits[i] = c) - 1

\* str.rstrip("/"): drop every trailing slash.
RECURSIVE rstrip(_)
rstrip(s) ==
    IF s # <<>> /\ s[Len(s)] = "/" THEN rstrip(SubSeq(s, 1, Len(s) - 1)) ELSE s

\* str.split("/")[-1]: what follows the last slash (the whole string if none).
RECURSIVE last_segment(_)
last_segment(s) ==
    IF s = <<>> THEN <<>>
    ELSE IF s[Len(s)] = "/" THEN <<>>
    ELSE Append(last_segment(SubSeq(s, 1, Len(s) - 1)), s[Len(s)])

\* The value of a string of decimal digits.
RECURSIVE digits_value(_)
digits_value(s) ==
    IF s = <<>> THEN 0
    ELSE 10 * digits_value(SubSeq(s, 1, Len(s) - 1)) + DigitValue(s[Len(s)])

\* try: int(...) except: None.  int() raises ValueError on the empty string
\* and on a string with a character that is no digit.
parse_id(url) ==
    LET seg == last_segment(rstrip(url))
    IN  IF seg # <<>> /\ \A i \in 1..Len(seg) : IsDigit(seg[i])
        THEN digits_value(seg)
        ELSE None

\* dict.get(key, default); dict[key] is obj[key], read only when the key is there.
Get(obj, key, default) == IF key \in obj.keys THEN obj[key] ELSE default

(***************************************************************************)
(* Transform helpers.                                                      *)
(***************************************************************************)
\* raw.get("species") is truthy: the key is there and its object is not empty.
has_species(raw) == "species" \in raw.keys /\ raw.species.keys # {}

\* A raw["name"] that is read with .get instead.
raises_KeyError_id_only(raw) ==
    \/ "id" \notin raw.keys
    \/ has_species(raw) /\ "url" \notin raw.species.keys

\* raw["id"], raw["name"] and raw["species"]["url"] raise KeyError when the
\* key is missing.
raises_KeyError(raw) ==
    \/ "id" \notin raw.keys
    \/ "name" \notin raw.keys
    \/ has_species(raw) /\ "url" \notin raw.species.keys

extract_pokemon_basic(raw) ==
    [id |-> raw.id,
     name |-> raw.name,
     height |-> Get(raw, "height", None),
     weight |-> Get(raw, "weight", None),
     base_experience |-> Get(raw, "base_experience", None),
     species_url |-> IF has_species(raw) THEN raw.species.url ELSE NoneUrl]

extract_types(raw) ==
    LET ts == Get(raw, "types", <<>>)
    IN  [i \in 1..Len(ts) |->
            [id |-> parse_id(ts[i].type.url),
             name |-> ts[i].type.name,
             slot |-> Get(ts[i], "slot", 0)]]

extract_abilities(raw) ==
    LET as == Get(raw, "abilities", <<>>)
    IN  [i \in 1..Len(as) |->
            [id |-> parse_id(as[i].ability.url),
             name |-> as[i].ability.name,
             slot |-> Get(as[i], "slot", 0),
             is_hidden |-> Get(as[i], "is_hidden", FALSE)]]

extract_stats(raw) ==
    LET ss == Get(raw, "stats", <<>>)
    IN  [i \in 1..Len(ss) |->
            [name |-> ss[i].stat.name,
             base_stat |-> Get(ss[i], "base_stat", 0),
             effort |-> Get(ss[i], "effort", 0)]]

\* extract_evolution_chain after its fetch_json(species_url): the chain id named
\* by species_data, which is what fetch_json returned (is_none: it returned None).
has_evolution_chain(species_data) ==
    /\ ~species_data.is_none
    /\ "evolution_chain" \in species_data.json.keys
    /\ species_data.json.evolution_chain.keys # {}

\* species_data["evolution_chain"]["url"] raises KeyError when the chain
\* object has no "url"; the try covers only the int().
chain_raises_KeyError(species_data) ==
    has_evolution_chain(species_data)
    /\ "url" \notin species_data.json.evolution_chain.keys

extract_evolution_chain(species_data) ==
    IF has_evolution_chain(species_data)
    THEN parse_id(species_data.json.evolution_chain.url)
    ELSE None

(***************************************************************************)
(* The database.  A table is the set of its rows.  init_db runs SCHEMA,    *)
(* which creates the tables (empty on a new file) and turns foreign-key    *)
(* enforcement on for the connection.                                      *)
(***************************************************************************)
init_db ==
    [pokemon |-> {}, types |-> {}, pokemon_types |-> {}, abilities |-> {},
     pokemon_abilities |-> {}, stats |-> {}, evolutions |-> {}]

\* INSERT INTO t (name): an INTEGER PRIMARY KEY left out is given one more
\* than the largest id of the table (1 in an empty table); lastrowid is it.
lastrowid(table) == IF table = {} THEN 1 ELSE Max({r.id : r \in table}) + 1

\* Foreign keys left off (no PRAGMA foreign_keys = ON): deleting a pokemon row
\* leaves its child rows.
on_delete_no_action(d, pokemon_id) == d

\* FOREIGN KEY (pokemon_id) REFERENCES pokemon(id) ON DELETE CASCADE: deleting
\* a pokemon row deletes the rows of the three child tables that point at it.
\* (evolutions also points at pokemon, without CASCADE; nothing writes it.)
on_delete_cascade(d, pokemon_id) ==
    [d EXCEPT !.pokemon_types = {r \in @ : r.pokemon_id # pokemon_id},
              !.pokemon_abilities = {r \in @ : r.pokemon_id # pokemon_id},
              !.stats = {r \in @ : r.pokemon_id # pokemon_id}]

\* The update-only variant of upsert_pokemon: UPDATE pokemon SET ... WHERE id = ?
\* writes no row for a Pokemon that is not stored yet.
upsert_pokemon_update_only(d, p, evolution_chain_id) ==
    IF \E r \in d.pokemon : r.id = p.id
    THEN [d EXCEPT !.pokemon = {r \in @ : r.id # p.id} \cup
            {[id |-> p.id, name |-> p.name, height |-> p.height, weight |-> p.weight,
              base_experience |-> p.base_experience, species_url |-> p.species_url,
              evolution_chain_id |-> evolution_chain_id]}]
    ELSE d

\* INSERT OR REPLACE INTO pokemon: a row with the same id is deleted first,
\* which cascades to its child rows, and the new row is inserted.
upsert_pokemon(d, p, evolution_chain_id) ==
    LET row == [id |-> p.id, name |-> p.name, height |-> p.height, weight |-> p.weight,
                base_experience |-> p.base_experience, species_url |-> p.species_url,
                evolution_chain_id |-> evolution_chain_id]
        old == {r \in d.pokemon : r.id = p.id}
        d1 == IF old = {} THEN d ELSE on_delete_cascade(d, p.id)
    IN  [d1 EXCEPT !.pokemon = (@ \ old) \cup {row}]

\* INSERT OR IGNORE INTO t (id, name): nothing is written when a row has the
\* id (PRIMARY KEY) or the name (UNIQUE).
insert_or_ignore(table, id, name) ==
    IF \E r \in table : r.id = id \/ r.name = name
    THEN table
    ELSE table \cup {[id |-> id, name |-> name]}

\* The reference-table part of upsert_type and upsert_ability, which are the
\* same code on two tables: the table after the call and the id returned.
\* Variants of it with a plausible slip:
\* the name path inserts without looking the name up first;
lookup_or_create_no_lookup(table, id, name) ==
    IF id = None
    THEN [table |-> table \cup {[id |-> lastrowid(table), name |-> name]},
          id |-> lastrowid(table)]
    ELSE [table |-> insert_or_ignore(table, id, name), id |-> id]

\* the id path replaces (INSERT OR REPLACE) instead of ignoring.
lookup_or_create_replace(table, id, name) ==
    IF id = None
    THEN IF \E r \in table : r.name = name
         THEN [table |-> table, id |-> (CHOOSE r \in table : r.name = name).id]
         ELSE [table |-> table \cup {[id |-> lastrowid(table), name |-> name]},
               id |-> lastrowid(table)]
    ELSE [table |-> {r \in table : r.id # id /\ r.name # name}
                        \cup {[id |-> id, name |-> name]},
          id |-> id]

lookup_or_create(table, id, name) ==
    IF id = None
    THEN IF \E r \in table : r.name = name
         THEN [table |-> table, id |-> (CHOOSE r \in table : r.name = name).id]
         ELSE [table |-> table \cup {[id |-> lastrowid(table), name |-> name]},
               id |-> lastrowid(table)]
    ELSE [table |-> insert_or_ignore(table, id, name), id |-> id]

\* upsert_type(conn, type_id, type_name): the database after it and its result.
upsert_type(d, type_id, type_name) ==
    LET r == lookup_or_create(d.types, type_id, type_name)
    IN  [db |-> [d EXCEPT !.types = r.table], id |-> r.id]

upsert_ability(d, ability_id, ability_name) ==
    LET r == lookup_or_create(d.abilities, ability_id, ability_name)
    IN  [db |-> [d EXCEPT !.abilities = r.table], id |-> r.id]

\* The FOREIGN KEY clauses of pokemon_types, pokemon_abilities and stats: an
\* insert whose parent row is missing raises sqlite3.IntegrityError.
fk_pokemon(d, pokemon_id) == \E r \in d.pokemon : r.id = pokemon_id
fk_type(d, type_id) == \E r \in d.types : r.id = type_id
fk_ability(d, ability_id) == \E r \in d.abilities : r.id = ability_id

\* A plain INSERT in place of INSERT OR REPLACE, on a table without the key.
insert_pokemon_ability_no_replace(d, pokemon_id, ability_id, slot, is_hidden) ==
    [d EXCEPT !.pokemon_abilities = @ \cup
        {[pokemon_id |-> pokemon_id, ability_id |-> ability_id, slot |-> slot,
          is_hidden |-> is_hidden]}]

\* INSERT OR REPLACE INTO pokemon_types: PRIMARY KEY (pokemon_id, type_id).
insert_pokemon_type(d, pokemon_id, type_id, slot) ==
    [d EXCEPT !.pokemon_types =
        {r \in @ : ~(r.pokemon_id = pokemon_id /\ r.type_id = type_id)} \cup
        {[pokemon_id |-> pokemon_id, type_id |-> type_id, slot |-> slot]}]

\* INSERT OR REPLACE INTO pokemon_abilities: PRIMARY KEY (pokemon_id, ability_id).
insert_pokemon_ability(d, pokemon_id, ability_id, slot, is_hidden) ==
    [d EXCEPT !.pokemon_abilities =
        {r \in @ : ~(r.pokemon_id = pokemon_id /\ r.ability_id = ability_id)} \cup
        {[pokemon_id |-> pokemon_id, ability_id |-> ability_id, slot |-> slot,
          is_hidden |-> is_hidden]}]

\* INSERT OR REPLACE INTO stats: PRIMARY KEY (pokemon_id, name).
insert_stat(d, pokemon_id, name, base_stat, effort) ==
    [d EXCEPT !.stats =
        {r \in @ : ~(r.pokemon_id = pokemon_id /\ r.name = name)} \cup
        {[pokemon_id |-> pokemon_id, name |-> name, base_stat |-> base_stat,
          effort |-> effort]}]

\* conn.close(): what the database file holds afterwards.  A transaction that
\* is open is rolled back, so the file keeps what the last commit wrote.  The
\* variant commits on close.
close_commits(d, file) == d

close(d, file) == file

(***************************************************************************)
(* The upstream API.  Toward one fetch_json call the upstream behaves in   *)
(* one of three ways, which are all there are: it answers 200 with a       *)
(* document within max_retries attempts ("doc"), it answers 404 within     *)
(* max_retries attempts ("notfound"), or every attempt fails ("down").     *)
(* Before the answer any attempt may fail with another status or with a    *)
(* request exception.                                                      *)
(***************************************************************************)
RefUrl(prefix, n) == <<prefix, "/", Digits[n + 1], "/">>
\* A URL with no trailing integer.
BadUrl(prefix) == <<prefix, "/", "x", "/">>

TypeUrls == {RefUrl("t", n) : n \in 1..MaxRefId} \cup {BadUrl("t")}
TypeNames == {"grass", "fire"}
AbilityUrls == {RefUrl("a", n) : n \in 1..MaxRefId} \cup {BadUrl("a")}
AbilityNames == {"blaze"}

\* Lists of at most n elements of S.
SeqsUpTo(S, n) == UNION {[1..m -> S] : m \in 0..n}

\* The slot of an entry is its place in the list, as the upstream numbers them.
TypeLists ==
    {[i \in 1..Len(l) |->
        [keys |-> {"type", "slot"}, type |-> [url |-> l[i][1], name |-> l[i][2]],
         slot |-> i]] : l \in SeqsUpTo(TypeUrls \X TypeNames, MaxEntries)}

AbilityLists ==
    {[i \in 1..Len(l) |->
        [keys |-> {"ability", "slot", "is_hidden"},
         ability |-> [url |-> l[i][1], name |-> l[i][2]],
         slot |-> i, is_hidden |-> l[i][3]]] :
     l \in SeqsUpTo(AbilityUrls \X AbilityNames \X BOOLEAN, MaxEntries)}

\* A stat with its values, and one that carries neither base_stat nor effort.
StatEntries ==
    {[keys |-> {"stat", "base_stat", "effort"}, stat |-> [name |-> "hp"],
      base_stat |-> 45, effort |-> 1],
     [keys |-> {"stat"}, stat |-> [name |-> "hp"], base_stat |-> None, effort |-> None]}

StatLists == SeqsUpTo(StatEntries, MaxEntries)

TheTypes == CHOOSE l \in TypeLists : Len(l) = 1 /\ parse_id(l[1].type.url) = 1
TheAbilities == CHOOSE l \in AbilityLists : Len(l) = 1 /\ parse_id(l[1].ability.url) = 1
TheStats == CHOOSE l \in StatLists : Len(l) = 1 /\ "base_stat" \in l[1].keys

\* The species object of a document: with its URL, without one, and empty.
SpeciesRef(url) == [keys |-> {"name", "url"}, url |-> url]
SpeciesNoUrl == [keys |-> {"name"}, url |-> NoneUrl]
SpeciesEmpty == [keys |-> {}, url |-> NoneUrl]

PokemonDoc(keys, pid, species, ts, as, ss) ==
    [keys |-> keys, id |-> pid, name |-> "pokemon", height |-> 7, weight |-> 69,
     base_experience |-> 64, species |-> species,
     types |-> ts, abilities |-> as, stats |-> ss]

BasicKeys == {"id", "name", "height", "weight", "base_experience"}
ListKeys == {"types", "abilities", "stats"}

\* The documents the upstream may serve for Pokemon pid.  A document varies in
\* one of its parts while the others are empty, or it is a full document (one
\* type, one ability, one stat, a species) that may lack "id" or "name" or
\* the URL of its species, or it is the empty object.
PokemonDocs(pid) ==
    {PokemonDoc(BasicKeys \cup ListKeys, pid, SpeciesEmpty, ts, <<>>, <<>>) : ts \in TypeLists}
    \cup
    {PokemonDoc(BasicKeys \cup ListKeys, pid, SpeciesEmpty, <<>>, as, <<>>) : as \in AbilityLists}
    \cup
    {PokemonDoc(BasicKeys \cup ListKeys, pid, SpeciesEmpty, <<>>, <<>>, ss) : ss \in StatLists}
    \cup
    {PokemonDoc(keys, pid, SpeciesRef(RefUrl("s", pid)), TheTypes, TheAbilities,
                TheStats) :
        keys \in {ListKeys \cup {"id", "name", "species"},
                  ListKeys \cup {"name", "species"},
                  ListKeys \cup {"id", "species"}}}
    \cup
    {PokemonDoc(ListKeys \cup {"id", "name", "species"}, pid, sp, TheTypes,
                TheAbilities, TheStats) : sp \in {SpeciesNoUrl, SpeciesEmpty}}
    \cup
    {NoJson}

\* The species documents: without an evolution chain, with one whose URL ends
\* in the chain id, with one whose URL has no trailing integer, and with one
\* that has no URL.
SpeciesDocs ==
    {[keys |-> {"name"}, evolution_chain |-> [keys |-> {}, url |-> NoneUrl]],
     [keys |-> {"name", "evolution_chain"},
      evolution_chain |-> [keys |-> {"url"}, url |-> RefUrl("e", 1)]],
     [keys |-> {"name", "evolution_chain"},
      evolution_chain |-> [keys |-> {"url"}, url |-> BadUrl("e")]],
     [keys |-> {"name", "evolution_chain"},
      evolution_chain |-> [keys |-> {"name"}, url |-> NoneUrl]]}

NotFound == [kind |-> "notfound", json |-> NoJson]
Down == [kind |-> "down", json |-> NoJson]
Doc(json) == [kind |-> "doc", json |-> json]

\* The upstream's behaviour toward the requests made for one identifier: the
\* species document is requested only for a document that names a species.
Upstreams(pid) ==
    {[primary |-> p, species |-> NotFound] :
        p \in {NotFound, Down} \cup
              {Doc(j) : j \in {d \in PokemonDocs(pid) : ~has_species(d)
                                                         \/ raises_KeyError(d)}}}
    \cup
    {[primary |-> Doc(j), species |-> sp] :
        j \in {d \in PokemonDocs(pid) : has_species(d) /\ ~raises_KeyError(d)},
        sp \in {NotFound, Down} \cup {Doc(s) : s \in SpeciesDocs}}

\* The identifier lists: 1..MaxIds identifiers, the first of which is 1 (the
\* identifiers are interchangeable).
IdLists == {l \in SeqsUpTo(1..MaxPid, MaxIds) : l # <<>> /\ l[1] = 1}

(***************************************************************************)
(* The state.                                                              *)
(***************************************************************************)
VARIABLES
    ids,                \* pokemon_ids: the identifier list of the runs
    run,                \* which run of the pipeline this is, 1..MaxRuns
    idx,                \* the place in ids of the identifier being processed
    pc,                 \* where main / fetch_and_store_pokemon stands
    upstream,           \* the upstream's behaviour toward the current identifier
    served,             \* the upstream's behaviour toward each identifier of run 1
    fetch,              \* the fetch_json call in progress
    basic, types, abilities, stats, evolution_chain_id,  \* the extracted data
    i,                  \* the place in types / abilities / stats of the loop
    real_type_ids,      \* what upsert_type returned for each type so far
    real_ability_ids,   \* what upsert_ability returned for each ability so far
    db,                 \* the database as the connection sees it
    committed,          \* the database file: what the last commit wrote
    error,              \* the exception that ended the run ("" when none)
    outcome,            \* this run's identifiers so far: "done" or "skipped"
    first_run,          \* the database file when run 1 ended
    complete,           \* per Pokemon, what its last committed fetch wrote
    chain,              \* the evolution-chain tree handed to the flattener
    edges,              \* the flattener's output
    chain_pc            \* where the flattener stands: "idle", "fetched", "flattened"

pipeline_vars ==
    <<ids, run, idx, pc, upstream, served, fetch, basic, types, abilities, stats,
      evolution_chain_id, i, real_type_ids, real_ability_ids, db, committed, error,
      outcome, first_run, complete>>

chain_vars == <<chain, edges, chain_pc>>

vars == <<pipeline_vars, chain_vars>>

NoUpstream == [primary |-> NotFound, species |-> NotFound]
NoFetch ==
    [target |-> "none", state |-> "idle", attempt |-> 0, tries |-> 0,
     sleeps |-> <<>>, last |-> "", is_none |-> TRUE, json |-> NoJson]
NoBasic ==
    [id |-> None, name |-> "", height |-> None, weight |-> None,
     base_experience |-> None, species_url |-> NoneUrl]
NotStored == [stored |-> FALSE]

NoChain == [species |-> [name |-> ""], evolves_to |-> <<>>]

\* The flattener is not running.
ChainIdle ==
    /\ chain = NoChain
    /\ edges = <<>>
    /\ chain_pc = "idle"

Init ==
    /\ ChainIdle
    /\ ids \in IdLists
    /\ run = 1
    /\ idx = 1
    /\ pc = "loop"
    /\ upstream = NoUpstream
    /\ served = <<>>
    /\ fetch = NoFetch
    /\ basic = NoBasic
    /\ types = <<>>
    /\ abilities = <<>>
    /\ stats = <<>>
    /\ evolution_chain_id = None
    /\ i = 1
    /\ real_type_ids = <<>>
    /\ real_ability_ids = <<>>
    /\ db = init_db
    /\ committed = init_db
    /\ error = ""
    /\ outcome = <<>>
    /\ first_run = init_db
    /\ complete = [p \in 1..MaxPid |-> NotStored]

\* The locals of one iteration of fetch_and_store_pokemon's loop, forgotten.
ForgetLocals ==
    /\ basic' = NoBasic
    /\ types' = <<>>
    /\ abilities' = <<>>
    /\ stats' = <<>>
    /\ evolution_chain_id' = None
    /\ i' = 1
    /\ real_type_ids' = <<>>
    /\ real_ability_ids' = <<>>

LocalsUnchanged ==
    UNCHANGED <<basic, types, abilities, stats, evolution_chain_id, i,
                real_type_ids, real_ability_ids>>

(***************************************************************************)
(* fetch_json(url, max_retries = 3, backoff = 0.5).                        *)
(***************************************************************************)
\* for attempt in range(1, max_retries + 1), and the same with the last
\* attempt left out.
in_range_short(attempt) == attempt < max_retries

in_range(attempt) == attempt <= max_retries

\* A wait that does not grow with the attempt.
sleep_time_constant(attempt) == backoff

\* time.sleep(backoff * attempt), in tenths of a second.
sleep_time(attempt) == backoff * attempt

\* What fetch_json does with a status that is neither 200 nor 404, or with a
\* request exception: it logs, sleeps and goes on to the next attempt.
retry(f) ==
    [f EXCEPT !.tries = @ + 1, !.last = "error",
              !.sleeps = Append(@, sleep_time(f.attempt)),
              !.attempt = @ + 1]

\* What fetch_json does with a 404: return None.  The variant treats it as
\* any other status.
on_404_retry(f) == retry(f)

on_404(f) ==
    [f EXCEPT !.tries = @ + 1, !.last = "404", !.state = "returned",
              !.is_none = TRUE, !.json = NoJson]

StartFetch(target) ==
    [NoFetch EXCEPT !.target = target, !.state = "running", !.attempt = 1]

\* What the upstream does toward the call in progress.
Behaviour == IF fetch.target = "primary" THEN upstream.primary ELSE upstream.species

MayFail == Behaviour.kind = "down" \/ fetch.attempt < max_retries

Fetching == fetch.state = "running" /\ in_range(fetch.attempt)

\* r.status_code == 200: return r.json()
Get200 ==
    /\ Fetching
    /\ Behaviour.kind = "doc"
    /\ fetch' = [fetch EXCEPT !.tries = @ + 1, !.last = "200", !.state = "returned",
                              !.is_none = FALSE, !.json = Behaviour.json]
    /\ UNCHANGED <<ids, run, idx, pc, upstream, served, db, committed, error,
                   outcome, first_run, complete>>
    /\ LocalsUnchanged

\* r.status_code == 404: return None
Get404 ==
    /\ Fetching
    /\ Behaviour.kind = "notfound"
    /\ fetch' = on_404(fetch)
    /\ UNCHANGED <<ids, run, idx, pc, upstream, served, db, committed, error,
                   outcome, first_run, complete>>
    /\ LocalsUnchanged

\* Any other status: [WARN], sleep, next attempt.
GetOtherStatus ==
    /\ Fetching
    /\ MayFail
    /\ fetch' = retry(fetch)
    /\ UNCHANGED <<ids, run, idx, pc, upstream, served, db, committed, error,
                   outcome, first_run, complete>>
    /\ LocalsUnchanged

\* requests.RequestException: [ERROR], sleep, next attempt.
GetException ==
    /\ Fetching
    /\ MayFail
    /\ fetch' = retry(fetch)
    /\ UNCHANGED <<ids, run, idx, pc, upstream, served, db, committed, error,
                   outcome, first_run, complete>>
    /\ LocalsUnchanged

\* The loop is over: [FAIL], return None.
GiveUp ==
    /\ fetch.state = "running"
    /\ ~in_range(fetch.attempt)
    /\ fetch' = [fetch EXCEPT !.state = "returned", !.last = "exhausted",
                              !.is_none = TRUE, !.json = NoJson]
    /\ UNCHANGED <<ids, run, idx, pc, upstream, served, db, committed, error,
                   outcome, first_run, complete>>
    /\ LocalsUnchanged

(***************************************************************************)
(* fetch_and_store_pokemon(conn, pokemon_ids) and main().                  *)
(***************************************************************************)
\* The loops in another order: the stats first, and then the commit.
AfterPokemon_stats_first(ts, as, ss) ==
    IF ss # <<>> THEN "insert_stat"
    ELSE IF ts # <<>> THEN "upsert_type"
    ELSE IF as # <<>> THEN "upsert_ability"
    ELSE "commit"

\* Where the writes go on after the entity row, the types, the abilities.
AfterPokemon(ts, as, ss) ==
    IF ts # <<>> THEN "upsert_type"
    ELSE IF as # <<>> THEN "upsert_ability"
    ELSE IF ss # <<>> THEN "insert_stat"
    ELSE "commit"

AfterTypes(as, ss) == AfterPokemon(<<>>, as, ss)

AfterAbilities(ss) == AfterPokemon(<<>>, <<>>, ss)

\* An exception leaves fetch_and_store_pokemon; main's finally closes the
\* connection and the process ends with the exception.
Raise(e) ==
    /\ pc' = "aborted"
    /\ error' = e
    /\ committed' = close(db, committed)
    /\ db' = committed'
    /\ fetch' = NoFetch
    /\ first_run' = IF run = 1 THEN committed' ELSE first_run
    /\ ForgetLocals
    /\ UNCHANGED <<ids, run, idx, upstream, served, outcome, complete>>

\* for pid in pokemon_ids: raw = fetch_json(f"{BASE}/pokemon/{pid}").  The
\* first run meets any upstream; the later runs meet the upstream of the first.
NextId ==
    /\ pc = "loop"
    /\ idx <= Len(ids)
    /\ IF run = 1
       THEN /\ upstream' \in Upstreams(ids[idx])
            /\ served' = Append(served, upstream')
       ELSE /\ idx <= Len(served)
            /\ upstream' = served[idx]
            /\ UNCHANGED served
    /\ pc' = "fetch_primary"
    /\ fetch' = StartFetch("primary")
    /\ UNCHANGED <<ids, run, idx, db, committed, error, outcome, first_run, complete>>
    /\ LocalsUnchanged

\* A test that lets None through to the extract functions.
not_raw_never(f) == FALSE

\* `not raw`: fetch_json returned None, or a document that is the empty object.
not_raw(f) == f.is_none \/ f.json.keys = {}

\* if not raw: [WARN] Skipping; continue
Skip ==
    /\ pc = "fetch_primary"
    /\ fetch.state = "returned"
    /\ not_raw(fetch)
    /\ pc' = "loop"
    /\ idx' = idx + 1
    /\ outcome' = Append(outcome, "skipped")
    /\ fetch' = NoFetch
    /\ UNCHANGED <<ids, run, upstream, served, db, committed, error, first_run, complete>>
    /\ LocalsUnchanged

\* The four extract_* calls, and the species fetch when there is a species URL.
Extract ==
    /\ pc = "fetch_primary"
    /\ fetch.state = "returned"
    /\ ~not_raw(fetch)
    /\ ~raises_KeyError(fetch.json)
    /\ basic' = extract_pokemon_basic(fetch.json)
    /\ types' = extract_types(fetch.json)
    /\ abilities' = extract_abilities(fetch.json)
    /\ stats' = extract_stats(fetch.json)
    /\ IF basic'.species_url # NoneUrl
       THEN /\ pc' = "fetch_species"
            /\ fetch' = StartFetch("species")
       ELSE /\ pc' = "upsert_pokemon"
            /\ fetch' = NoFetch
    /\ UNCHANGED <<ids, run, idx, upstream, served, evolution_chain_id, i,
                   real_type_ids, real_ability_ids, db, committed, error, outcome,
                   first_run, complete>>

\* extract_pokemon_basic raises KeyError: nothing catches it.
ExtractRaises ==
    /\ pc = "fetch_primary"
    /\ fetch.state = "returned"
    /\ ~not_raw(fetch)
    /\ raises_KeyError(fetch.json)
    /\ Raise("KeyError")

\* extract_evolution_chain raises KeyError: nothing catches it.
ChainRaises ==
    /\ pc = "fetch_species"
    /\ fetch.state = "returned"
    /\ chain_raises_KeyError(fetch)
    /\ Raise("KeyError")

\* extract_evolution_chain returns: the chain id or None.
ChainResolved ==
    /\ pc = "fetch_species"
    /\ fetch.state = "returned"
    /\ ~chain_raises_KeyError(fetch)
    /\ evolution_chain_id' = extract_evolution_chain(fetch)
    /\ pc' = "upsert_pokemon"
    /\ fetch' = NoFetch
    /\ UNCHANGED <<ids, run, idx, upstream, served, basic, types, abilities, stats, i,
                   real_type_ids, real_ability_ids, db, committed, error, outcome,
                   first_run, complete>>

StepUpsertPokemon ==
    /\ pc = "upsert_pokemon"
    /\ db' = upsert_pokemon(db, basic, evolution_chain_id)
    /\ pc' = AfterPokemon(types, abilities, stats)
    /\ i' = 1
    /\ UNCHANGED <<ids, run, idx, upstream, served, fetch, basic, types, abilities,
                   stats, evolution_chain_id, real_type_ids, real_ability_ids,
                   committed, error, outcome, first_run, complete>>

\* real_type_id = upsert_type(conn, t_id, t_name)
StepUpsertType ==
    /\ pc = "upsert_type"
    /\ LET r == upsert_type(db, types[i].id, types[i].name)
       IN  /\ db' = r.db
           /\ real_type_ids' = Append(real_type_ids, r.id)
    /\ pc' = "insert_pokemon_type"
    /\ UNCHANGED <<ids, run, idx, upstream, served, fetch, basic, types, abilities,
                   stats, evolution_chain_id, i, real_ability_ids, committed, error,
                   outcome, first_run, complete>>

\* insert_pokemon_type(conn, basic["id"], real_type_id, slot)
StepInsertPokemonType ==
    /\ pc = "insert_pokemon_type"
    /\ fk_pokemon(db, basic.id)
    /\ fk_type(db, real_type_ids[i])
    /\ db' = insert_pokemon_type(db, basic.id, real_type_ids[i], types[i].slot)
    /\ i' = IF i < Len(types) THEN i + 1 ELSE 1
    /\ pc' = IF i < Len(types) THEN "upsert_type" ELSE AfterTypes(abilities, stats)
    /\ UNCHANGED <<ids, run, idx, upstream, served, fetch, basic, types, abilities,
                   stats, evolution_chain_id, real_type_ids, real_ability_ids,
                   committed, error, outcome, first_run, complete>>

\* FOREIGN KEY constraint failed.
InsertPokemonTypeRaises ==
    /\ pc = "insert_pokemon_type"
    /\ ~(fk_pokemon(db, basic.id) /\ fk_type(db, real_type_ids[i]))
    /\ Raise("IntegrityError")

\* real_ability_id = upsert_ability(conn, a_id, a_name)
StepUpsertAbility ==
    /\ pc = "upsert_ability"
    /\ LET r == upsert_ability(db, abilities[i].id, abilities[i].name)
       IN  /\ db' = r.db
           /\ real_ability_ids' = Append(real_ability_ids, r.id)
    /\ pc' = "insert_pokemon_ability"
    /\ UNCHANGED <<ids, run, idx, upstream, served, fetch, basic, types, abilities,
                   stats, evolution_chain_id, i, real_type_ids, committed, error,
                   outcome, first_run, complete>>

\* insert_pokemon_ability(conn, basic["id"], real_ability_id, slot, is_hidden)
StepInsertPokemonAbility ==
    /\ pc = "insert_pokemon_ability"
    /\ fk_pokemon(db, basic.id)
    /\ fk_ability(db, real_ability_ids[i])
    /\ db' = insert_pokemon_ability(db, basic.id, real_ability_ids[i],
                                    abilities[i].slot, abilities[i].is_hidden)
    /\ i' = IF i < Len(abilities) THEN i + 1 ELSE 1
    /\ pc' = IF i < Len(abilities) THEN "upsert_ability" ELSE AfterAbilities(stats)
    /\ UNCHANGED <<ids, run, idx, upstream, served, fetch, basic, types, abilities,
                   stats, evolution_chain_id, real_type_ids, real_ability_ids,
                   committed, error, outcome, first_run, complete>>

InsertPokemonAbilityRaises ==
    /\ pc = "insert_pokemon_ability"
    /\ ~(fk_pokemon(db, basic.id) /\ fk_ability(db, real_ability_ids[i]))
    /\ Raise("IntegrityError")

\* insert_stat(conn, basic["id"], stat_name, base_stat, effort); its foreign
\* key, to the entity row written above, cannot fail.
StepInsertStat ==
    /\ pc = "insert_stat"
    /\ fk_pokemon(db, basic.id)
    /\ db' = insert_stat(db, basic.id, stats[i].name, stats[i].base_stat, stats[i].effort)
    /\ i' = IF i < Len(stats) THEN i + 1 ELSE 1
    /\ pc' = IF i < Len(stats) THEN "insert_stat" ELSE "commit"
    /\ UNCHANGED <<ids, run, idx, upstream, served, fetch, basic, types, abilities,
                   stats, evolution_chain_id, real_type_ids, real_ability_ids,
                   committed, error, outcome, first_run, complete>>

\* conn.commit(); [SUCCESS]; the next iteration.
Commit ==
    /\ pc = "commit"
    /\ committed' = db
    /\ complete' = [complete EXCEPT ![basic.id] =
            [stored |-> TRUE, basic |-> basic, evolution_chain_id |-> evolution_chain_id,
             types |-> types, real_type_ids |-> real_type_ids,
             abilities |-> abilities, real_ability_ids |-> real_ability_ids,
             stats |-> stats]]
    /\ outcome' = Append(outcome, "done")
    /\ idx' = idx + 1
    /\ pc' = "loop"
    /\ ForgetLocals
    /\ UNCHANGED <<ids, run, upstream, served, fetch, db, error, first_run>>

\* The list is through: main's finally closes the connection.
Finish ==
    /\ pc = "loop"
    /\ idx > Len(ids)
    /\ pc' = "done"
    /\ committed' = close(db, committed)
    /\ db' = committed'
    /\ first_run' = IF run = 1 THEN committed' ELSE first_run
    /\ UNCHANGED <<ids, run, idx, upstream, served, fetch, error, outcome, complete>>
    /\ LocalsUnchanged

\* The program is run again on the same list and the same database file:
\* sqlite3.connect, init_db (CREATE TABLE IF NOT EXISTS changes nothing).
RunAgain ==
    /\ pc \in {"done", "aborted"}
    /\ run < MaxRuns
    /\ run' = run + 1
    /\ idx' = 1
    /\ pc' = "loop"
    /\ db' = committed
    /\ error' = ""
    /\ outcome' = <<>>
    /\ upstream' = NoUpstream
    /\ UNCHANGED <<ids, served, fetch, committed, first_run, complete>>
    /\ LocalsUnchanged

Next ==
    \/ NextId /\ UNCHANGED chain_vars
    \/ Get200 /\ UNCHANGED chain_vars
    \/ Get404 /\ UNCHANGED chain_vars
    \/ GetOtherStatus /\ UNCHANGED chain_vars
    \/ GetException /\ UNCHANGED chain_vars
    \/ GiveUp /\ UNCHANGED chain_vars
    \/ Skip /\ UNCHANGED chain_vars
    \/ Extract /\ UNCHANGED chain_vars
    \/ ExtractRaises /\ UNCHANGED chain_vars
    \/ ChainRaises /\ UNCHANGED chain_vars
    \/ ChainResolved /\ UNCHANGED chain_vars
    \/ StepUpsertPokemon /\ UNCHANGED chain_vars
    \/ StepUpsertType /\ UNCHANGED chain_vars
    \/ StepInsertPokemonType /\ UNCHANGED chain_vars
    \/ InsertPokemonTypeRaises /\ UNCHANGED chain_vars
    \/ StepUpsertAbility /\ UNCHANGED chain_vars
    \/ StepInsertPokemonAbility /\ UNCHANGED chain_vars
    \/ InsertPokemonAbilityRaises /\ UNCHANGED chain_vars
    \/ StepInsertStat /\ UNCHANGED chain_vars
    \/ Commit /\ UNCHANGED chain_vars
    \/ Finish /\ UNCHANGED chain_vars
    \/ RunAgain /\ UNCHANGED chain_vars

Spec == Init /\ [][Next]_vars

(***************************************************************************)
(* Properties.                                                             *)
(***************************************************************************)
Ended == pc \in {"done", "aborted"}

\* C1: idempotence.  Against the same upstream responses, a second (and any
\* later) run of the pipeline on the same identifier list leaves every table
\* with exactly the rows the first run left.
C1_Idempotent == (run >= 2 /\ Ended) => committed = first_run

\* A second run has gone through a list of two Pokemon, with rows stored in
\* the reference and the association tables, one reference id being generated.
C1_Witness ==
    /\ run = 2
    /\ pc = "done"
    /\ Cardinality(committed.pokemon) = 2
    /\ committed.pokemon_types # {}
    /\ committed.pokemon_abilities # {}
    /\ \E j \in 1..Len(served) :
          /\ served[j].primary.kind = "doc"
          /\ \E t \in 1..Len(served[j].primary.json.types) :
                parse_id(served[j].primary.json.types[t].type.url) = None

C3_NotFoundShortCircuit ==
    (fetch.state = "returned" /\ Behaviour.kind = "notfound") =>
        /\ fetch.last = "404"
        /\ fetch.is_none
        /\ Len(fetch.sleeps) = fetch.tries - 1
        /\ (fetch.sleeps = <<>> => fetch.tries = 1)

\* A 404 on the first attempt has been returned.
C3_Witness ==
    /\ fetch.state = "returned"
    /\ fetch.last = "404"
    /\ fetch.tries = 1
    /\ fetch.sleeps = <<>>

\* C4: per-identifier error isolation.  An error in the processing of one
\* identifier leaves no identifier of the list unprocessed: the run goes on
\* with the identifiers after it.
C4_ErrorIsolated == error # "" => (pc # "aborted" /\ idx >= Len(ids))

\* The rows of Pokemon p in database d.
RowsOf(d, p) ==
    [pokemon |-> {r \in d.pokemon : r.id = p},
     pokemon_types |-> {r \in d.pokemon_types : r.pokemon_id = p},
     pokemon_abilities |-> {r \in d.pokemon_abilities : r.pokemon_id = p},
     stats |-> {r \in d.stats : r.pokemon_id = p}]

NoTrace(d, p) ==
    RowsOf(d, p) = [pokemon |-> {}, pokemon_types |-> {}, pokemon_abilities |-> {},
                    stats |-> {}]

\* The places of a list whose key no later place repeats: the rows that stay.
Last(n, key(_)) == {j \in 1..n : \A j2 \in (j + 1)..n : key(j2) # key(j)}

\* The rows one fetch of Pokemon p is to leave: the entity row, one association
\* per reference id its types (abilities) resolved to and one stat per name,
\* each with the values of the document's last entry for it.
Entity(p, c) ==
    LET type_key(j) == c.real_type_ids[j]
        ability_key(j) == c.real_ability_ids[j]
        stat_key(j) == c.stats[j].name
    IN  [pokemon |->
            {[id |-> p, name |-> c.basic.name, height |-> c.basic.height,
              weight |-> c.basic.weight, base_experience |-> c.basic.base_experience,
              species_url |-> c.basic.species_url,
              evolution_chain_id |-> c.evolution_chain_id]},
         pokemon_types |->
            {[pokemon_id |-> p, type_id |-> c.real_type_ids[j], slot |-> c.types[j].slot] :
                j \in Last(Len(c.types), type_key)},
         pokemon_abilities |->
            {[pokemon_id |-> p, ability_id |-> c.real_ability_ids[j],
              slot |-> c.abilities[j].slot, is_hidden |-> c.abilities[j].is_hidden] :
                j \in Last(Len(c.abilities), ability_key)},
         stats |->
            {[pokemon_id |-> p, name |-> c.stats[j].name,
              base_stat |-> c.stats[j].base_stat, effort |-> c.stats[j].effort] :
                j \in Last(Len(c.stats), stat_key)}]

FullyPresent(d, p) == RowsOf(d, p) = Entity(p, complete[p])

\* C5: per-entity atomicity.  In every state the database file holds each
\* Pokemon either in full (its row with all the type associations, ability
\* associations and stats of its last committed fetch) or not at all: a fetch
\* in progress or ended by an error has left no trace in the file, and what
\* was committed earlier stays.
C5_EntityAtomic ==
    \A p \in 1..MaxPid :
        IF complete[p].stored THEN FullyPresent(committed, p) ELSE NoTrace(committed, p)

\* The run was ended by an error in the writes of the second Pokemon, after
\* the first was committed with a type, an ability or a stat.
C5_Witness ==
    /\ pc = "aborted"
    /\ error = "IntegrityError"
    /\ idx = 2
    /\ complete[ids[1]].stored
    /\ ~complete[ids[2]].stored
    /\ committed.pokemon_types # {}

\* The upstream's behaviour u leaves the species sub-path without a chain id:
\* the document names a species whose fetch returns None, or whose document
\* has no evolution chain or one with an unparseable URL.
SpeciesFails(u) ==
    /\ u.primary.kind = "doc"
    /\ ~raises_KeyError(u.primary.json)
    /\ has_species(u.primary.json)
    /\ \/ u.species.kind # "doc"
       \/ "evolution_chain" \notin u.species.json.keys
       \/ /\ "url" \in u.species.json.evolution_chain.keys
          /\ parse_id(u.species.json.evolution_chain.url) = None

\* C6: partial failure isolation.  An identifier whose primary document was
\* fetched and whose species sub-path failed is persisted and committed: when
\* its processing ends, its row, types, abilities and stats are in the file,
\* with a NULL evolution_chain_id.
C6_SpeciesFailureIsolated ==
    /\ (pc = "aborted" /\ idx <= Len(served)) => ~SpeciesFails(served[idx])
    /\ (pc = "loop" /\ idx > 1 /\ SpeciesFails(served[idx - 1])) =>
          /\ outcome[idx - 1] = "done"
          /\ FullyPresent(committed, ids[idx - 1])
          /\ \A r \in committed.pokemon :
                r.id = ids[idx - 1] => r.evolution_chain_id = None

\* The species sub-path itself is isolated: once it has failed, the writes
\* start with a NULL chain id, and an identifier that is committed after it is
\* in the file in full with that NULL.
C6_SubPathIsolated ==
    /\ (pc = "upsert_pokemon" /\ SpeciesFails(upstream)) => evolution_chain_id = None
    /\ (pc = "loop" /\ idx > 1 /\ SpeciesFails(served[idx - 1])) =>
          /\ outcome[idx - 1] = "done"
          /\ FullyPresent(committed, ids[idx - 1])
          /\ \A r \in committed.pokemon :
                r.id = ids[idx - 1] => r.evolution_chain_id = None

\* How many of the current document's types (abilities) have been linked.
TypesLinked ==
    IF pc \in {"upsert_type", "insert_pokemon_type"} THEN i - 1
    ELSE IF pc \in {"upsert_ability", "insert_pokemon_ability", "insert_stat", "commit"}
    THEN Len(types)
    ELSE 0

AbilitiesLinked ==
    IF pc \in {"upsert_ability", "insert_pokemon_ability"} THEN i - 1
    ELSE IF pc \in {"insert_stat", "commit"} THEN Len(abilities)
    ELSE 0

\* C7: association replace semantics.  After any sequence of link calls on
\* one (Pokemon id, reference id) pair the association table holds exactly one
\* row for the pair, with the slot (and is_hidden) of the last call; no pair
\* of any Pokemon has two rows.
C7_AssociationReplaced ==
    /\ \A j \in 1..TypesLinked :
          LET last == Max({j2 \in 1..TypesLinked : real_type_ids[j2] = real_type_ids[j]})
          IN  {r \in db.pokemon_types :
                  r.pokemon_id = basic.id /\ r.type_id = real_type_ids[j]}
              = {[pokemon_id |-> basic.id, type_id |-> real_type_ids[j],
                  slot |-> types[last].slot]}
    /\ \A j \in 1..AbilitiesLinked :
          LET last == Max({j2 \in 1..AbilitiesLinked :
                              real_ability_ids[j2] = real_ability_ids[j]})
          IN  {r \in db.pokemon_abilities :
                  r.pokemon_id = basic.id /\ r.ability_id = real_ability_ids[j]}
              = {[pokemon_id |-> basic.id, ability_id |-> real_ability_ids[j],
                  slot |-> abilities[last].slot,
                  is_hidden |-> abilities[last].is_hidden]}
    /\ \A r1, r2 \in db.pokemon_types :
          (r1.pokemon_id = r2.pokemon_id /\ r1.type_id = r2.type_id) => r1 = r2
    /\ \A r1, r2 \in db.pokemon_abilities :
          (r1.pokemon_id = r2.pokemon_id /\ r1.ability_id = r2.ability_id) => r1 = r2

\* One ability was linked twice to the same Pokemon, first as a standard and
\* then as a hidden ability, and one row with is_hidden = TRUE is left.
C7_Witness ==
    /\ pc = "commit"
    /\ Len(abilities) = 2
    /\ real_ability_ids[1] = real_ability_ids[2]
    /\ ~abilities[1].is_hidden
    /\ abilities[2].is_hidden
    /\ Cardinality(db.pokemon_abilities) = 1
    /\ \A r \in db.pokemon_abilities : r.is_hidden

UniqueNames(table) == \A r1, r2 \in table : r1.name = r2.name => r1 = r2

\* C9: reference-value uniqueness and stability.  The types table and the
\* abilities table hold at most one row per name, in the connection and in
\* the file; an upsert_type (upsert_ability) call leaves every name that is
\* stored under its id, whatever id the call supplies, and adds no second row
\* for it; and a name committed under an id stays committed under it.
C9_ReferenceStable ==
    /\ [](/\ UniqueNames(db.types) /\ UniqueNames(db.abilities)
          /\ UniqueNames(committed.types) /\ UniqueNames(committed.abilities))
    /\ [][/\ pc = "upsert_type" =>
                \A r \in db.types : {x \in db'.types : x.name = r.name} = {r}
          /\ pc = "upsert_ability" =>
                \A r \in db.abilities : {x \in db'.abilities : x.name = r.name} = {r}
          /\ committed.types \subseteq committed'.types
          /\ committed.abilities \subseteq committed'.abilities]_vars

\* upsert_type was called with an id for a name that is stored under another id.
C9_Witness ==
    /\ pc = "insert_pokemon_type"
    /\ types[i].id # None
    /\ \E r \in db.types : r.name = types[i].name /\ r.id # types[i].id

\* No row of a child table points at a missing Pokemon.
NoOrphan(d) ==
    \A r \in d.pokemon_types \cup d.pokemon_abilities \cup d.stats :
        \E e \in d.pokemon : e.id = r.pokemon_id

\* C10: foreign-key discipline.  Every row of pokemon_types, pokemon_abilities
\* and stats points at a pokemon row that exists, in the transaction and in
\* the file, and the entity row is in the transaction whenever a row of its
\* types, abilities or stats is about to be written.
C10_ForeignKeyDiscipline ==
    /\ NoOrphan(db)
    /\ NoOrphan(committed)
    /\ pc \in {"upsert_type", "insert_pokemon_type", "upsert_ability",
               "insert_pokemon_ability", "insert_stat", "commit"} =>
          \E e \in db.pokemon : e.id = basic.id

\* A stat is about to be committed for a Pokemon whose row is in the
\* transaction and not yet in the file.
C10_Witness ==
    /\ pc = "commit"
    /\ db.stats # {}
    /\ \E r \in db.stats : ~\E e \in committed.pokemon : e.id = r.pokemon_id

(***************************************************************************)
(* The evolution-chain flattener (spec section 4.3).  src/ fetches no       *)
(* chain document and holds no flattener, so this part follows the          *)
(* specification's contract: a node carries species.name and evolves_to.    *)
(***************************************************************************)
MaxNodes == 4
SpeciesNames == {"A", "B", "C", "D"}

Node(name, children) == [species |-> [name |-> name], evolves_to |-> children]

RECURSIVE ChainsOfSize(_), ForestsOfSize(_)
\* The chain trees of exactly n nodes, and the child lists of n nodes in all.
ChainsOfSize(n) ==
    {Node(name, children) : name \in SpeciesNames, children \in ForestsOfSize(n - 1)}

ForestsOfSize(n) ==
    IF n = 0 THEN {<<>>}
    ELSE UNION {{<<t>> \o f : t \in ChainsOfSize(k), f \in ForestsOfSize(n - k)} :
                   k \in 1..n}

Chains == UNION {ChainsOfSize(n) : n \in 1..MaxNodes}

\* One edge per direct child of the node, in the order given.
child_edges(node) ==
    [j \in 1..Len(node.evolves_to) |->
        <<node.species.name, node.evolves_to[j].species.name>>]

RECURSIVE Concat(_)
Concat(seqs) == IF seqs = <<>> THEN <<>> ELSE Head(seqs) \o Concat(Tail(seqs))

RECURSIVE flatten_chain_edge_then_subtree(_)
\* A flattener that descends into a child right after emitting its edge.
flatten_chain_edge_then_subtree(node) ==
    Concat([j \in 1..Len(node.evolves_to) |->
               <<child_edges(node)[j]>>
               \o flatten_chain_edge_then_subtree(node.evolves_to[j])])

RECURSIVE flatten_chain(_)
\* Visit a node, emit one edge per direct child, then recurse into each child
\* in the order given.
flatten_chain(node) ==
    child_edges(node)
    \o Concat([j \in 1..Len(node.evolves_to) |-> flatten_chain(node.evolves_to[j])])

InitChain ==
    /\ chain \in Chains
    /\ edges = <<>>
    /\ chain_pc = "fetched"
    /\ ids = <<1>>
    /\ run = 1
    /\ idx = 1
    /\ pc = "loop"
    /\ upstream = NoUpstream
    /\ served = <<>>
    /\ fetch = NoFetch
    /\ basic = NoBasic
    /\ types = <<>>
    /\ abilities = <<>>
    /\ stats = <<>>
    /\ evolution_chain_id = None
    /\ i = 1
    /\ real_type_ids = <<>>
    /\ real_ability_ids = <<>>
    /\ db = init_db
    /\ committed = init_db
    /\ error = ""
    /\ outcome = <<>>
    /\ first_run = init_db
    /\ complete = [p \in 1..MaxPid |-> NotStored]

FlattenChain ==
    /\ chain_pc = "fetched"
    /\ edges' = flatten_chain(chain)
    /\ chain_pc' = "flattened"
    /\ UNCHANGED <<chain, pipeline_vars>>

NextChain == FlattenChain

SpecChain == InitChain /\ [][NextChain]_vars

\* The chain A -> [B, C], B -> [D].
ExampleChain ==
    Node("A", <<Node("B", <<Node("D", <<>>)>>), Node("C", <<>>)>>)

RECURSIVE ChainSize(_), ParentChildPairs(_)
ChainSize(node) ==
    1 + SeqSum([j \in 1..Len(node.evolves_to) |-> ChainSize(node.evolves_to[j])])

ParentChildPairs(node) ==
    {<<node.species.name, node.evolves_to[j].species.name>> :
        j \in 1..Len(node.evolves_to)}
    \cup UNION {ParentChildPairs(node.evolves_to[j]) : j \in 1..Len(node.evolves_to)}

\* C8: chain flattening.  The flattened list is the edges of the root to its
\* direct children in the given order followed by the flattened lists of the
\* children in order (depth-first pre-order); it holds one edge per node
\* below the root and every parent-child pair of the tree; and the chain
\* A -> [B, C], B -> [D] gives exactly [(A,B), (A,C), (B,D)].
C8_ChainFlattened ==
    chain_pc = "flattened" =>
        /\ Len(edges) = ChainSize(chain) - 1
        /\ {edges[j] : j \in 1..Len(edges)} = ParentChildPairs(chain)
        /\ \A j \in 1..Len(chain.evolves_to) :
              edges[j] = <<chain.species.name, chain.evolves_to[j].species.name>>
        /\ \A j \in 1..Len(chain.evolves_to) :
              LET before ==
                      Len(chain.evolves_to)
                      + SeqSum([k \in 1..(j - 1) |-> ChainSize(chain.evolves_to[k]) - 1])
                  sub == chain.evolves_to[j]
              IN  /\ Len(sub.evolves_to) > 0 =>
                        /\ before + ChainSize(sub) - 1 <= Len(edges)
                        /\ \A k \in 1..Len(sub.evolves_to) :
                              edges[before + k]
                              = <<sub.species.name, sub.evolves_to[k].species.name>>
                  /\ {edges[before + k] : k \in 1..(ChainSize(sub) - 1)}
                     = ParentChildPairs(sub)
        /\ chain = ExampleChain => edges = <<<<"A", "B">>, <<"A", "C">>, <<"B", "D">>>>

\* The chain A -> [B, C], B -> [D] was flattened.
C8_Witness ==
    /\ chain_pc = "flattened"
    /\ chain = ExampleChain
    /\ edges = <<<<"A", "B">>, <<"A", "C">>, <<"B", "D">>>>

(***************************************************************************)
(* The orchestrator's handling of one identifier.                          *)
(***************************************************************************)
\* The primary fetch of the identifier in hand yields NotFound or Failure.
PrimaryAbsent == pc = "fetch_primary" /\ upstream.primary.kind # "doc"

\* C11: Skip leaves the database unchanged.  While the primary fetch of an
\* identifier yields NotFound or Failure, no step changes a row of any table,
\* in the transaction or in the file, and no species fetch is issued; the fetch
\* returns None, and the step that ends the identifier records it as skipped
\* and moves to the next identifier of the list.
C11_SkipLeavesDatabase ==
    /\ []((PrimaryAbsent /\ fetch.state = "returned") => fetch.is_none)
    /\ []((PrimaryAbsent) => (db = committed /\ fetch.target = "primary"))
    /\ [][PrimaryAbsent =>
            /\ db' = db
            /\ committed' = committed
            /\ fetch'.target # "species"
            /\ pc' \in {"fetch_primary", "loop"}
            /\ pc' = "loop" =>
                  /\ idx' = idx + 1
                  /\ outcome' = Append(outcome, "skipped")
                  /\ error' = ""]_vars

\* An identifier was skipped after another had been stored, and the rows of
\* the stored one are all there.
C11_Witness ==
    /\ pc = "loop"
    /\ outcome = <<"done", "skipped">>
    /\ served[2].primary.kind = "down"
    /\ committed.pokemon # {}
    /\ committed.pokemon_types # {}
    /\ db = committed

\* extract_pokemon_basic is about to be called on a document.
Extracting == pc = "fetch_primary" /\ fetch.state = "returned" /\ ~fetch.is_none

\* The step raises an exception before anything is written.
FatalBeforeWrite ==
    /\ pc' = "aborted"
    /\ error' # ""
    /\ db' = committed
    /\ committed' = committed

\* C12 as claimed: malformed document is fatal, not defaulted.  A 200 primary
\* document missing any of the keys id, name or species raises a fatal error
\* during extraction, before any database write.
C12_MalformedFatal ==
    [][(Extracting /\ ~({"id", "name", "species"} \subseteq fetch.json.keys)) =>
          FatalBeforeWrite]_vars

\* C12 amended: a missing id or name is fatal, a missing species is not.  A
\* 200 primary document (not the empty object) that lacks id or name, or whose
\* species object lacks url, raises KeyError during extraction, before any
\* database write; any other document is extracted with its own id and name,
\* and when it has no species (or an empty one) its species URL is null and no
\* species fetch is made; the empty object is skipped with no write.  No
\* pokemon row ever carries a null or guessed id or name, and a row stored
\* from a document without species has a NULL species_url.
C12_MissingIdentityFatal ==
    /\ [][Extracting =>
            IF fetch.json.keys = {}
            THEN pc' = "loop" /\ db' = db /\ committed' = committed /\ error' = ""
            ELSE IF \/ "id" \notin fetch.json.keys
                    \/ "name" \notin fetch.json.keys
                    \/ /\ "species" \in fetch.json.keys
                       /\ fetch.json.species.keys \notin {{}, {"name", "url"}}
            THEN FatalBeforeWrite /\ error' = "KeyError"
            ELSE /\ pc' # "aborted"
                 /\ db' = db
                 /\ basic'.id = fetch.json.id
                 /\ basic'.name = fetch.json.name
                 /\ ("species" \notin fetch.json.keys \/ fetch.json.species.keys = {}) =>
                       (basic'.species_url = NoneUrl /\ pc' = "upsert_pokemon")]_vars
    /\ [](\A r \in db.pokemon \cup committed.pokemon :
             r.id \in 1..MaxPid /\ r.name = "pokemon")
    /\ [](pc \in {"fetch_species", "upsert_pokemon", "upsert_type",
                  "insert_pokemon_type", "upsert_ability", "insert_pokemon_ability",
                  "insert_stat", "commit"} =>
             /\ {"id", "name"} \subseteq upstream.primary.json.keys
             /\ basic.id = upstream.primary.json.id)
    /\ [](pc = "commit" /\ ("species" \notin upstream.primary.json.keys
                              \/ upstream.primary.json.species.keys = {}) =>
             \A r \in db.pokemon : r.id = basic.id => r.species_url = NoneUrl)

\* A document without "name" ended the run with KeyError after another
\* Pokemon had been stored, and nothing of it is in the file.
C12_Witness ==
    /\ pc = "aborted"
    /\ error = "KeyError"
    /\ idx = 2
    /\ "name" \notin upstream.primary.json.keys
    /\ "id" \in upstream.primary.json.keys
    /\ Cardinality(committed.pokemon) = 1
    /\ \A r \in committed.pokemon : r.id # upstream.primary.json.id

\* What the fetch in hand has extracted and resolved.
Fetched ==
    [basic |-> basic, evolution_chain_id |-> evolution_chain_id, types |-> types,
     real_type_ids |-> real_type_ids, abilities |-> abilities,
     real_ability_ids |-> real_ability_ids, stats |-> stats]

\* C13: associations and stats are fully replaced on re-fetch.  When the fetch
\* of a Pokemon that is already in the file commits, the file holds for it
\* exactly the associations and stats of the new document: every row it had
\* for a type, ability or stat the new document does not list is gone.
C13_ReplacedOnRefetch ==
    [][(pc = "commit" /\ \E r \in committed.pokemon : r.id = basic.id) =>
          /\ RowsOf(committed', basic.id) = Entity(basic.id, Fetched)
          /\ \A r \in committed'.pokemon_types :
                r.pokemon_id = basic.id =>
                    \E j \in 1..Len(types) :
                        real_type_ids[j] = r.type_id /\ types[j].slot = r.slot
          /\ \A r \in committed'.pokemon_abilities :
                r.pokemon_id = basic.id =>
                    \E j \in 1..Len(abilities) :
                        /\ real_ability_ids[j] = r.ability_id
                        /\ abilities[j].slot = r.slot
          /\ Cardinality({r \in committed'.stats : r.pokemon_id = basic.id})
             <= Len(stats)]_vars

\* A Pokemon stored with two types was fetched again with a document that
\* lists no type, and the file holds no type association for it.
C13_Witness ==
    /\ pc = "loop"
    /\ idx = 3
    /\ ids[1] = ids[2]
    /\ outcome = <<"done", "done">>
    /\ Len(served[1].primary.json.types) = 2
    /\ served[1].primary.json.types[1].type # served[1].primary.json.types[2].type
    /\ served[2].primary.json.types = <<>>
    /\ committed.pokemon_types = {}
    /\ Cardinality(committed.types) = 2

\* The chain document the upstream serves for chain id c.
ChainDocument(c) == ExampleChain

\* The evolution-edge rows that upsertEvolutionEdges(c, edges) is to leave.
EdgeRows(c, es) ==
    {[chain_id |-> c, from_species |-> es[j][1], to_species |-> es[j][2]] :
        j \in 1..Len(es)}

\* C14: evolution edges are persisted.  Once an identifier whose species
\* document carries an evolution-chain reference with a parseable chain id c
\* is done, the evolution-edge table of the file holds every flattened edge of
\* the chain document of c, keyed by c.
C14_EdgesPersisted ==
    \A k \in 1..Len(outcome) :
          LET u == served[k]
              c == IF u.primary.kind = "doc" /\ u.species.kind = "doc"
                      /\ "evolution_chain" \in u.species.json.keys
                      /\ "url" \in u.species.json.evolution_chain.keys
                   THEN parse_id(u.species.json.evolution_chain.url)
                   ELSE None
          IN  (outcome[k] = "done" /\ c # None) =>
                  EdgeRows(c, flatten_chain(ChainDocument(c))) \subseteq committed.evolutions

\* What a call of upsert_type / upsert_ability on a reference table with an
\* absent id and name n has to do: table is the table before, after the table
\* after, id the id returned.
LookedUpOrCreated(table, after, n, id) ==
    /\ IF \E r \in table : r.name = n
       THEN /\ after = table
            /\ [id |-> id, name |-> n] \in table
       ELSE /\ after = table \cup {[id |-> id, name |-> n]}
            /\ \A r \in table : r.id # id
            /\ id # None
    /\ {r \in after : r.name = n} = {[id |-> id, name |-> n]}

\* C15: lookup-or-create by name.  Called with an absent id, upsert_type and
\* upsert_ability return the id of the row that has the name and write
\* nothing, or else insert exactly one row with the name and return its new
\* id; the calls of one fetch for the same name return the same id, and one
\* row is left for the name.
C15_LookupOrCreate ==
    /\ [][/\ (pc = "upsert_type" /\ types[i].id = None) =>
                LookedUpOrCreated(db.types, db'.types, types[i].name,
                                  real_type_ids'[i])
          /\ (pc = "upsert_ability" /\ abilities[i].id = None) =>
                LookedUpOrCreated(db.abilities, db'.abilities, abilities[i].name,
                                  real_ability_ids'[i])]_vars
    /\ [](\A j, k \in 1..Len(real_type_ids) :
             (types[j].id = None /\ types[k].id = None
              /\ types[j].name = types[k].name) =>
                 real_type_ids[j] = real_type_ids[k])
    /\ [](\A j, k \in 1..Len(real_ability_ids) :
             (abilities[j].id = None /\ abilities[k].id = None
              /\ abilities[j].name = abilities[k].name) =>
                 real_ability_ids[j] = real_ability_ids[k])

\* upsert_type was called twice without an id for one name that was not
\* stored: both calls returned the id generated by the first, after a row
\* with a supplied id, and the table has one row for the name.
C15_Witness ==
    /\ pc = "commit"
    /\ Len(types) = 2
    /\ types[1].id = None
    /\ types[2].id = None
    /\ types[1].name = types[2].name
    /\ real_type_ids[1] = real_type_ids[2]
    /\ \E r \in committed.types : r.name # types[1].name /\ r.id < real_type_ids[1]
    /\ Cardinality({r \in db.types : r.name = types[1].name}) = 1
    /\ \A r \in committed.types : r.name # types[1].name

\* The positions of fetch_and_store_pokemon where a write of the identifier in
\* hand is pending.
TypePhase == pc \in {"upsert_type", "insert_pokemon_type"}
AbilityPhase == pc \in {"upsert_ability", "insert_pokemon_ability"}
WritePhase == TypePhase \/ AbilityPhase \/ pc \in {"insert_stat", "commit"}

\* The entity row of the fetch in hand, and its rows when only the types are
\* linked.
EntityRow ==
    Entity(basic.id, [Fetched EXCEPT !.types = <<>>, !.abilities = <<>>]).pokemon

TypesOnly == Entity(basic.id, [Fetched EXCEPT !.abilities = <<>>])

\* C16: write ordering per identifier.  The entity row is written first; while
\* the types are linked (each after its reference id was resolved) no ability
\* or stat of the Pokemon is written yet; the abilities are linked when all
\* types are; the stats are written when all types and abilities are; the one
\* commit follows the last write and precedes the next primary fetch, so that
\* a fetch never runs with a write pending, and the writes of one identifier
\* touch no row of another Pokemon.
C16_WriteOrder ==
    /\ [](LET want == Entity(basic.id, Fetched)
              have == RowsOf(db, basic.id)
          IN  /\ WritePhase => have.pokemon = EntityRow
              /\ TypePhase =>
                    /\ Len(real_type_ids) = (IF pc = "upsert_type" THEN i - 1 ELSE i)
                    /\ Cardinality(have.pokemon_types) <= i
                    /\ have.pokemon_abilities = {}
                    /\ have.stats = {}
              /\ AbilityPhase =>
                    /\ Len(real_type_ids) = Len(types)
                    /\ have.pokemon_types = TypesOnly.pokemon_types
                    /\ Len(real_ability_ids) = (IF pc = "upsert_ability" THEN i - 1 ELSE i)
                    /\ have.stats = {}
              /\ pc \in {"insert_stat", "commit"} =>
                    /\ Len(real_type_ids) = Len(types)
                    /\ Len(real_ability_ids) = Len(abilities)
              /\ pc = "insert_stat" =>
                    /\ have.pokemon_types = want.pokemon_types
                    /\ have.pokemon_abilities = want.pokemon_abilities
                    /\ Cardinality(have.stats) < i
              /\ pc = "commit" => have = want
              /\ ~WritePhase => db = committed)
    /\ [][/\ committed' # committed => (pc = "commit" /\ committed' = db)
          /\ pc = "commit" => (committed' = db /\ idx' = idx + 1 /\ pc' = "loop")
          /\ (pc' = "fetch_primary" /\ pc # "fetch_primary") =>
                (pc = "loop" /\ db = committed /\ Len(outcome) = idx - 1)
          /\ db' # db =>
                \/ pc = "upsert_pokemon" /\ pc' \in {"upsert_type", "upsert_ability",
                                                     "insert_stat", "commit"}
                \/ WritePhase /\ pc # "commit"
          /\ WritePhase =>
                \A p \in 1..MaxPid : p # basic.id => RowsOf(db', p) = RowsOf(db, p)]_vars

\* The second identifier of the list is about to be committed after its
\* entity row, its type, its ability and its stat were written in that order,
\* the first identifier being in the file.
C16_Witness ==
    /\ pc = "commit"
    /\ idx = 2
    /\ types # <<>>
    /\ abilities # <<>>
    /\ stats # <<>>
    /\ RowsOf(db, basic.id) = Entity(basic.id, Fetched)
    /\ committed.pokemon # {}
    /\ db # committed

\* C17: the id returned by upsert_type / upsert_ability identifies a row of
\* the reference table when the call returns, so the association insert that
\* follows never violates its foreign key to types / abilities, also when an
\* id is supplied for a name that is stored under another id.
C17_ReturnedIdExists ==
    /\ pc = "insert_pokemon_type" => fk_type(db, real_type_ids[i])
    /\ pc = "insert_pokemon_ability" => fk_ability(db, real_ability_ids[i])
    /\ error # "IntegrityError"

\* C18: every committed association row points at the reference value the
\* document named.  For each Pokemon in the file and each type (ability) entry
\* of its document, the types (abilities) row with the linked id has the
\* entry's name.
C18_AssociationNamesDocument ==
    \A p \in 1..MaxPid :
        complete[p].stored =>
            /\ \A j \in 1..Len(complete[p].types) :
                  [id |-> complete[p].real_type_ids[j],
                   name |-> complete[p].types[j].name] \in committed.types
            /\ \A j \in 1..Len(complete[p].abilities) :
                  [id |-> complete[p].real_ability_ids[j],
                   name |-> complete[p].abilities[j].name] \in committed.abilities

\* C19: success stops the retry loop.  When attempts 1..k-1 of fetch_json fail
\* transiently and attempt k <= max_retries answers 200, fetch_json returns
\* that document after exactly k attempts, having slept backoff * 1, ...,
\* backoff * (k - 1) in that order, and makes no attempt and no sleep after it.
C19_SuccessStopsRetry ==
    /\ []((fetch.state = "returned" /\ fetch.last = "200") =>
            LET k == fetch.tries
            IN  /\ k \in 1..max_retries
                /\ fetch.attempt = k
                /\ fetch.sleeps = [j \in 1..(k - 1) |-> backoff * j]
                /\ ~fetch.is_none
                /\ fetch.json = Behaviour.json)
    /\ [][(fetch.state = "returned" /\ fetch.last = "200") =>
            \/ fetch' = fetch
            \/ fetch' = NoFetch
            \/ fetch' = StartFetch("species") /\ fetch.target = "primary"]_vars

\* The third attempt answered 200 after two transient failures.
C19_Witness ==
    /\ fetch.state = "returned"
    /\ fetch.last = "200"
    /\ fetch.tries = 3
    /\ fetch.sleeps = <<backoff * 1, backoff * 2>>
    /\ fetch.json.keys # {}

\* C20: the run terminates with bounded network work.  A run that has ended
\* has ended normally, with every identifier of the list done (committed) or
\* skipped; the identifiers are visited in list order, one outcome each; and
\* no fetch_json call, for a primary or a species document, makes more than
\* max_retries GET attempts.
C20_RunCompletes ==
    /\ Ended =>
          /\ pc = "done"
          /\ error = ""
          /\ Len(outcome) = Len(ids)
          /\ \A k \in 1..Len(outcome) : outcome[k] \in {"done", "skipped"}
    /\ idx \in 1..(Len(ids) + 1)
    /\ ~Ended => Len(outcome) = idx - 1
    /\ fetch.tries <= max_retries

====
